---- MODULE Spec2Model ----
(***************************************************************************)
(* Model of the sst CLI control plane (cmd/sst/main.go): concurrent CLI    *)
(* processes that run deploy / remove / refresh / unlock / state edit /    *)
(* import-unstable / server against one shared backend.                    *)
(*                                                                         *)
(* The handlers, run() and main() are translated from cmd/sst/main.go.     *)
(* The Stack methods (Lock, Unlock, Cancel, Run, Import, PullState,        *)
(* PushState) and server.Start live in pkg/project and pkg/server; they    *)
(* are modelled from their documented contract.                            *)
(***************************************************************************)
EXTENDS Integers, Sequences, FiniteSets, TLC

(* ------------------------------ bounds -------------------------------- *)
NumProcs == 2
NumStages == 1
NumBlobs == 2
MaxArgs == 5
MaxLines == 2
MaxCalls == 2
MaxProgress == 3
MaxInvocations == 2
\* prompts of one getStage call that are told apart
MaxPrompts == MaxLines + 2

\* concurrent terminals, each running one CLI invocation after another
Procs == 1..NumProcs
\* one application (project directory), NumStages stages of it
StageKeys == 1..NumStages
\* the stage initProject resolves in terminal p
stage == [p \in Procs |-> ((p - 1) % NumStages) + 1]

\* a stored StateBlob is a non-empty serialized snapshot
Blobs == 1..NumBlobs
\* the local state file with nothing in it
EmptyFile == 0
\* contents of a local state file
Files == Blobs \cup {EmptyFile}

\* the leaf commands of Root that take part in locking and coordination
StackCommands == {"deploy", "remove", "refresh"}
Commands == StackCommands \cup {"unlock", "state edit", "import-unstable", "server"}

VARIABLES
  pc,           \* pc[p]: position of p in its handler
  result,       \* result[p]: error the handler returns ("" = nil)
  locks,        \* backend: set of LockRecords
  blob,         \* backend: blob[k] = StateBlob of StageKey k
  file,         \* file[p]: local editable copy made by PullState
  pulled,       \* pulled[p]: value of the remote blob when p pulled it, while file[p] is unedited
  edited,       \* edited[p]: the editor changed the pulled file
  lockOk,       \* lockOk[p]: p has observed a successful lock acquisition
  unlockCalls,  \* unlockCalls[p]: number of Unlock() calls p has made
  forced,       \* processes whose LockRecord Cancel force-cleared before they released it
  sig,          \* sig[p]: 0 no SIGINT, 1 buffered in interruptChannel, 2 goroutine ran cancel()
  ctx,          \* ctx[p]: p's context is cancelled
  sessions      \* processes that own the live coordination session

vars == <<pc, result, locks, blob, file, pulled, edited,
          lockOk, unlockCalls, forced, sig, ctx, sessions>>

\* one invocation of run(), seen from its argument vector to its exit
VARIABLES
  argv,         \* os.Args[1:]
  cli,          \* the Cli that run() builds: flags, arguments, path (and cliParseError)
  runPc,        \* position of run() and main()
  runErr,       \* the error run() returns ("" = nil)
  helpCalls,    \* the paths PrintHelp rendered, in call order
  handlerCalls  \* the paths whose Run handler was invoked, in call order

dispatcherVars == <<argv, cli, runPc, runErr, helpCalls, handlerCalls>>

\* stage resolution (getStage) on one project
VARIABLES
  username,     \* user.Current().Username ("" = the lookup fails)
  marker,       \* the personal-stage marker next to the project config ("" = none)
  stdin,        \* the lines waiting on standard input
  stagePc,      \* position of getStage
  stageName,    \* the local variable stage of getStage
  stageCalls    \* per call of getStage: its inputs, prompts, marker writes and result

resolverVars == <<username, marker, stdin, stagePc, stageName, stageCalls>>

\* one run of a Stack command and the events it hands to onEvent
VARIABLES
  lifecycle,    \* state of the Stack Lifecycle state machine
  command,      \* StackInput.Command
  otherHolder,  \* another holder has the LockRecord of the stage
  held,         \* this run holds the lock
  onEvent,      \* the events handed to StackInput.OnEvent, in order
  eventsAtUnlock \* Len(onEvent) when the lock was released (-1: not released)

lifecycleVars == <<lifecycle, command, otherHolder, held, onEvent, eventsAtUnlock>>

\* the secret commands of the processes on one (app, stage)
VARIABLES
  secrets,      \* backend: the stored secret map of (app, stage)
  secretCall    \* secretCall[p]: command, key, value, fetched map and puts of p

secretVars == <<secrets, secretCall>>

\* the log destination of successive invocations in one project directory
VARIABLES
  invocation,   \* number of the invocation that is running (0: none yet)
  logFile,      \* the file the global logFile is bound to
  logs,         \* logs[f]: the records in file f
  terminal      \* what this invocation has written to the terminal

logVars == <<invocation, logFile, logs, terminal>>

\* concurrent runs on different StageKeys and the consumers of their events
VARIABLES
  produced,     \* produced[r]: the events run r has emitted, in order
  received      \* received[c]: the events ui.Trigger of consumer c was called with

channelVars == <<produced, received>>

\* what the concurrent-process actions leave alone
nonProcVars == <<dispatcherVars, resolverVars, lifecycleVars, secretVars, logVars, channelVars>>
\* what the dispatcher actions leave alone
nonDispatcherVars == <<vars, resolverVars, lifecycleVars, secretVars, logVars, channelVars>>
\* what the stage resolver leaves alone, cli apart
nonResolverVars == <<vars, argv, runPc, runErr, helpCalls, handlerCalls, lifecycleVars,
                     secretVars, logVars, channelVars>>
\* what a Stack run leaves alone
nonLifecycleVars == <<vars, dispatcherVars, resolverVars, secretVars, logVars, channelVars>>
\* what the secret commands leave alone, pc and result apart
nonSecretVars == <<locks, blob, file, pulled, edited, lockOk, unlockCalls, forced, sig, ctx,
                   sessions, dispatcherVars, resolverVars, lifecycleVars, logVars, channelVars>>
\* what the log destination leaves alone, cli, runPc and runErr apart
nonLogVars == <<vars, argv, helpCalls, handlerCalls, resolverVars, lifecycleVars,
                secretVars, channelVars>>
\* what the event consumers leave alone
nonChannelVars == <<vars, dispatcherVars, resolverVars, lifecycleVars, secretVars, logVars>>

(* ------------- command registry (main.go 157-1148) ------------------- *)
Range(f) == {f[i] : i \in DOMAIN f}

\* Root and its subcommands: the Children of the node at a path of names
Children(path) ==
  CASE path = <<"sst">> ->
         <<"init", "dev", "deploy", "add", "install", "secret", "shell",
           "remove", "unlock", "version", "upgrade", "telemetry",
           "import-unstable", "server", "introspect", "refresh", "state">>
    [] path = <<"sst", "secret">> -> <<"set", "remove", "list">>
    [] path = <<"sst", "telemetry">> -> <<"enable", "disable">>
    [] path = <<"sst", "state">> -> <<"edit">>
    [] OTHER -> <<>>

\* the node at the path has a Run handler
HasRun_Everywhere(path) == TRUE
HasRun(path) ==
  path \notin {<<"sst">>, <<"sst", "secret">>, <<"sst", "telemetry">>, <<"sst", "state">>}

\* number of Args with Required: true
Required(path) ==
  CASE path = <<"sst", "add">> -> 1
    [] path = <<"sst", "secret", "set">> -> 2
    [] path = <<"sst", "secret", "remove">> -> 1
    [] path = <<"sst", "import-unstable">> -> 3
    [] OTHER -> 0

\* registerFlags: every Flag of the tree is registered on the one flag set
StringFlags == {"stage", "parent"}
BoolFlags == {"verbose", "help"}
DefaultFlags == [stage |-> "", parent |-> "", verbose |-> FALSE, help |-> FALSE]

(* ----------------- flag parsing (main.go 82-85) ------------------------ *)
\* the command-line tokens of the model
Tokens == {"secret", "set", "Foo", "bar", "--stage=prod", "--stage", "--help", "--nope"}

\* argument vectors of up to MaxArgs tokens
Argvs == UNION {[1..n -> Tokens] : n \in 0..MaxArgs}

\* the shape of a token: --name, --name=value, or a plain word
Lex(t) ==
  CASE t = "--stage=prod" -> [flag |-> TRUE, name |-> "stage", eq |-> TRUE, value |-> "prod"]
    [] t = "--stage" -> [flag |-> TRUE, name |-> "stage", eq |-> FALSE, value |-> ""]
    [] t = "--help" -> [flag |-> TRUE, name |-> "help", eq |-> FALSE, value |-> ""]
    [] t = "--nope" -> [flag |-> TRUE, name |-> "nope", eq |-> FALSE, value |-> ""]
    [] OTHER -> [flag |-> FALSE, name |-> t, eq |-> FALSE, value |-> ""]

\* flag.CommandLine.Parse with ContinueOnError: flags and words interspersed;
\* a string flag without "=" takes the next token as its value; the first
\* unknown or incomplete flag ends the parse with an error
RECURSIVE parseArgs(_, _, _)
parseArgs(args, flags, words) ==
  IF args = <<>> THEN [flags |-> flags, args |-> words, err |-> FALSE]
  ELSE
    LET s == Lex(Head(args))
        rest == Tail(args)
        failed == [flags |-> flags, args |-> words, err |-> TRUE]
    IN
      IF ~s.flag THEN parseArgs(rest, flags, Append(words, s.name))
      ELSE IF s.name \in BoolFlags THEN
        IF ~s.eq THEN parseArgs(rest, [flags EXCEPT ![s.name] = TRUE], words)
        ELSE IF s.value \in {"true", "false"}
          THEN parseArgs(rest, [flags EXCEPT ![s.name] = (s.value = "true")], words)
          ELSE failed
      ELSE IF s.name \in StringFlags THEN
        IF s.eq THEN parseArgs(rest, [flags EXCEPT ![s.name] = s.value], words)
        ELSE IF rest # <<>>
          THEN parseArgs(Tail(rest), [flags EXCEPT ![s.name] = Head(rest)], words)
          ELSE failed
      ELSE failed

(* ------------------ tree walk (main.go 87-109) ------------------------- *)
\* for i, arg := range flag.Args(): descend while arg names a child
\* line 93: a node without children takes the rest as positionals
walkLeaf_DropFirst(cmds, args) == [path |-> cmds, positionals |-> Tail(args)]
walkLeaf(cmds, args) == [path |-> cmds, positionals |-> args]
\* lines 102-104: no child has the name, the loop breaks
walkMismatch(cmds, args) == [path |-> cmds, positionals |-> <<>>]

RECURSIVE walk(_, _)
walk(cmds, args) ==
  IF args = <<>> THEN [path |-> cmds, positionals |-> <<>>]
  ELSE IF Children(cmds) = <<>> THEN walkLeaf(cmds, args)
  ELSE IF Head(args) \in Range(Children(cmds))
    THEN walk(Append(cmds, Head(args)), Tail(args))
    ELSE walkMismatch(cmds, args)

\* var ErrHelp = util.NewReadableError(nil, ""): an error with an empty message
ErrHelp == "ErrHelp"

\* no invocation is being dispatched
NoCli == [flags |-> DefaultFlags, arguments |-> <<>>, path |-> <<>>, parseError |-> FALSE]
NoInvocation ==
  /\ argv = <<>>
  /\ cli = NoCli
  /\ runPc = "off"
  /\ runErr = ""
  /\ helpCalls = <<>>
  /\ handlerCalls = <<>>

(* ---------------- stage resolver (main.go 1451-1492) ------------------- *)
\* OS usernames of the model
Usernames == {"root", "admin", "prod", "dev", "production", "alice", "Alice", "Root"}
\* user.Current() fails
NoUser == ""

\* stage names given by flag, marker or prompt
StageNames == {"staging", "bob"}

\* a line on standard input: empty, or one word
Lines == {"", "bob"}
Inputs == UNION {[1..n -> Lines] : n \in 0..MaxLines}

\* strings.ToLower
ToLower(u) == CASE u = "Alice" -> "alice"
                [] u = "Root" -> "root"
                [] OTHER -> u

Denylist == {"root", "admin", "prod", "dev", "production"}

\* guessStage(): "" when the user is unknown or the lower-cased name is denylisted
guessStage_Literal(u) == IF u \in Denylist THEN "" ELSE u
guessStage(u) ==
  IF u = NoUser THEN ""
  ELSE IF ToLower(u) \in Denylist THEN "" ELSE ToLower(u)

\* project.LoadPersonalStage(cfgPath)
LoadPersonalStage_Missing == ""
LoadPersonalStage == marker

\* no stage is being resolved
NoResolver ==
  /\ username = NoUser
  /\ marker = ""
  /\ stdin = <<>>
  /\ stagePc = "off"
  /\ stageName = ""
  /\ stageCalls = <<>>

(* ------------------ Stack run events (4.4, 4.6) ----------------------- *)
\* Command of the StackInput that deploy, remove and refresh pass to Stack.Run
RunCommands == {"up", "destroy", "refresh"}

\* what the provisioning engine reports while it works
ProgressEvents == {"Progress(A)", "Progress(B)"}
\* LifecycleEvent: the terminal events of a run
TerminalEvents == {"Completed", "Failed"}

\* no Stack run is followed
NoRun ==
  /\ lifecycle = "off"
  /\ command = ""
  /\ otherHolder = FALSE
  /\ held = FALSE
  /\ onEvent = <<>>
  /\ eventsAtUnlock = -1

(* ------------------- secrets (main.go 580-711, 4.3) -------------------- *)
\* names and values of the secrets of the model
SecretKeys == {"A", "B"}
SecretValues == {"x", "y"}
\* the map has no entry for the key
Absent == "absent"

\* map<string,string> over the keys of the model
SecretMaps == [SecretKeys -> SecretValues \cup {Absent}]
EmptySecrets == [k \in SecretKeys |-> Absent]

SecretCommands == {"secret set", "secret remove", "secret list"}

NoSecretCall ==
  [cmd |-> "", key |-> "", value |-> "", got |-> FALSE,
   fetched |-> EmptySecrets, puts |-> <<>>]

\* no secret command is followed
NoSecrets ==
  /\ secrets = EmptySecrets
  /\ secretCall = [p \in Procs |-> NoSecretCall]

(* ------------- log destination (main.go 33-39, 1393-1449) -------------- *)
\* the temporary file of os.CreateTemp and the project's sst.log
LogFiles == {"tmp", "sst.log"}

\* no invocation has logged anything
NoLog ==
  /\ invocation = 0
  /\ logFile = "tmp"
  /\ logs = [f \in LogFiles |-> <<>>]
  /\ terminal = <<>>

(* ---------------- event consumers (main.go 366-372, 4.6) --------------- *)
\* one run per StageKey of the model, each with the ui its handler created
Runs == {1, 2}

\* no run is delivering events
NoChannel ==
  /\ produced = [r \in Runs |-> <<>>]
  /\ received = [r \in Runs |-> <<>>]

(* --------------------------- backend (4.3) ---------------------------- *)
LockRecord(k, h) == [stageKey |-> k, holderId |-> h]

RecordsOf(k) == {r \in locks : r.stageKey = k}

Holds(p) == LockRecord(stage[p], p) \in locks

\* acquireLock's compare: no record for k exists
CanAcquire(k) == RecordsOf(k) = {}

\* acquireLock(stageKey, holderId) -> LockRecord | AlreadyLocked
acquireLock(k, h) == IF CanAcquire(k) THEN locks \cup {LockRecord(k, h)} ELSE locks

\* releaseLock(stageKey, holderId) -> ok | NotHolder
releaseLock_AnyHolder(k, h) == locks \ RecordsOf(k)
releaseLock(k, h) == locks \ {LockRecord(k, h)}

\* Cancel(): force-clears the LockRecord of k
forceClear(k) == locks \ RecordsOf(k)

FirstPc(c) == CASE c \in StackCommands -> "run_lock"
                [] c = "unlock" -> "cancel"
                [] c = "state edit" -> "edit_lock"
                [] c = "import-unstable" -> "imp_lock"
                [] c = "server" -> "srv_start"

Init ==
  /\ pc = [p \in Procs |-> "idle"]
  /\ result = [p \in Procs |-> ""]
  /\ locks = {}
  /\ blob \in [StageKeys -> Blobs]
  /\ file = [p \in Procs |-> EmptyFile]
  /\ pulled = [p \in Procs |-> EmptyFile]
  /\ edited = [p \in Procs |-> FALSE]
  /\ lockOk = [p \in Procs |-> FALSE]
  /\ unlockCalls = [p \in Procs |-> 0]
  /\ forced = {}
  /\ sig = [p \in Procs |-> 0]
  /\ ctx = [p \in Procs |-> FALSE]
  /\ sessions = {}
  /\ NoInvocation
  /\ NoResolver
  /\ NoRun
  /\ NoSecrets
  /\ NoLog
  /\ NoChannel

(* ------------------------ run() (71-155) ------------------------------ *)
\* run() resolves argv to a leaf command and calls active.Run(cli)
Start(p) ==
  /\ pc[p] = "idle"
  /\ \E c \in Commands : pc' = [pc EXCEPT ![p] = FirstPc(c)]
  /\ UNCHANGED <<result, locks, blob, file, pulled, edited, lockOk, unlockCalls, forced, sig, ctx, sessions>>
  /\ UNCHANGED nonProcVars

(* ---------------- state edit (main.go 1114-1146) ---------------------- *)
\* p.Stack.Lock(); on error return "Could not lock state"
StateEditLock_IgnoreErr(p) ==
  /\ pc[p] = "edit_lock"
  /\ locks' = acquireLock(stage[p], p)
  /\ pc' = [pc EXCEPT ![p] = "edit_pull"]
  /\ lockOk' = [lockOk EXCEPT ![p] = CanAcquire(stage[p])]
  /\ UNCHANGED <<result, blob, file, pulled, edited, unlockCalls, forced, sig, ctx, sessions>>
  /\ UNCHANGED nonProcVars
StateEditLock_Wait(p) ==
  /\ pc[p] = "edit_lock"
  /\ CanAcquire(stage[p])
  /\ locks' = acquireLock(stage[p], p)
  /\ pc' = [pc EXCEPT ![p] = "edit_pull"]
  /\ lockOk' = [lockOk EXCEPT ![p] = TRUE]
  /\ UNCHANGED <<result, blob, file, pulled, edited, unlockCalls, forced, sig, ctx, sessions>>
  /\ UNCHANGED nonProcVars
StateEditLock_DeferFirst(p) ==
  /\ pc[p] = "edit_lock"
  /\ locks' = acquireLock(stage[p], p)
  /\ IF CanAcquire(stage[p])
       THEN /\ pc' = [pc EXCEPT ![p] = "edit_pull"]
            /\ lockOk' = [lockOk EXCEPT ![p] = TRUE]
            /\ UNCHANGED result
       ELSE /\ pc' = [pc EXCEPT ![p] = "edit_defer"]
            /\ result' = [result EXCEPT ![p] = "Could not lock state"]
            /\ UNCHANGED lockOk
  /\ UNCHANGED <<blob, file, pulled, edited, unlockCalls, forced, sig, ctx, sessions>>
  /\ UNCHANGED nonProcVars
StateEditLock(p) ==
  /\ pc[p] = "edit_lock"
  /\ locks' = acquireLock(stage[p], p)
  /\ IF CanAcquire(stage[p])
       THEN /\ pc' = [pc EXCEPT ![p] = "edit_pull"]
            /\ lockOk' = [lockOk EXCEPT ![p] = TRUE]
            /\ UNCHANGED result
       ELSE /\ pc' = [pc EXCEPT ![p] = "returned"]
            /\ result' = [result EXCEPT ![p] = "Could not lock state"]
            /\ UNCHANGED lockOk
  /\ UNCHANGED <<blob, file, pulled, edited, unlockCalls, forced, sig, ctx, sessions>>
  /\ UNCHANGED nonProcVars

\* every return after line 1125 runs the deferred p.Stack.Unlock()
StateEditExit_NoDefer(p, err) ==
  /\ pc' = [pc EXCEPT ![p] = IF err = "" THEN "edit_defer" ELSE "returned"]
  /\ result' = [result EXCEPT ![p] = err]
StateEditExit(p, err) ==
  /\ pc' = [pc EXCEPT ![p] = "edit_defer"]
  /\ result' = [result EXCEPT ![p] = err]

\* the local copy is not read again after an error return
DropCopy(p) ==
  /\ file' = [file EXCEPT ![p] = EmptyFile]
  /\ pulled' = [pulled EXCEPT ![p] = EmptyFile]
  /\ edited' = [edited EXCEPT ![p] = FALSE]

\* PullState(): materializes the remote blob to the local path
PullState(k) == blob[k]

\* PushState(): validates the local blob is non-empty, then uploads it
PushStateValid(f) == f # EmptyFile

PushState_Corrupt(k, f) == [blob EXCEPT ![k] = (f % NumBlobs) + 1]
PushState(k, f) == [blob EXCEPT ![k] = f]

\* path, err := p.Stack.PullState()
StateEditPull(p) ==
  /\ pc[p] = "edit_pull"
  /\ \E ok \in BOOLEAN :
       IF ok
         THEN /\ file' = [file EXCEPT ![p] = PullState(stage[p])]
              /\ pulled' = [pulled EXCEPT ![p] = blob[stage[p]]]
              /\ pc' = [pc EXCEPT ![p] = "edit_start"]
              /\ UNCHANGED <<result, edited>>
         ELSE /\ StateEditExit(p, "Could not pull state")
              /\ UNCHANGED <<file, pulled, edited>>
  /\ UNCHANGED <<locks, blob, lockOk, unlockCalls, forced, sig, ctx, sessions>>
  /\ UNCHANGED nonProcVars

\* cmd.Start()
StateEditStart(p) ==
  /\ pc[p] = "edit_start"
  /\ \E ok \in BOOLEAN :
       IF ok
         THEN pc' = [pc EXCEPT ![p] = "edit_wait"] /\ UNCHANGED <<result, file, pulled, edited>>
         ELSE StateEditExit(p, "Could not start editor") /\ DropCopy(p)
  /\ UNCHANGED <<locks, blob, lockOk, unlockCalls, forced, sig, ctx, sessions>>
  /\ UNCHANGED nonProcVars

\* the editor leaves content f in the file; pulled[p] is kept while the
\* file is as PullState wrote it
EditorWrites(p, f) ==
  /\ file' = [file EXCEPT ![p] = f]
  /\ edited' = [edited EXCEPT ![p] = (f # file[p])]
  /\ pulled' = [pulled EXCEPT ![p] = IF f # file[p] THEN EmptyFile ELSE @]

\* cmd.Wait(): the editor leaves any content in the file and exits
StateEditWait_UnlockEarly(p) ==
  /\ pc[p] = "edit_wait"
  /\ \E f \in Files : EditorWrites(p, f)
  /\ pc' = [pc EXCEPT ![p] = "edit_push"]
  /\ locks' = releaseLock(stage[p], p)
  /\ UNCHANGED <<result, blob, lockOk, unlockCalls, forced, sig, ctx, sessions>>
  /\ UNCHANGED nonProcVars
StateEditWait_IgnoreErr(p) ==
  /\ pc[p] = "edit_wait"
  /\ \E ok \in BOOLEAN :
       /\ \E f \in Files : EditorWrites(p, f)
       /\ pc' = [pc EXCEPT ![p] = "edit_push"]
       /\ result' = [result EXCEPT ![p] = IF ok THEN "" ELSE "Editor exited with error"]
  /\ UNCHANGED <<locks, blob, lockOk, unlockCalls, forced, sig, ctx, sessions>>
  /\ UNCHANGED nonProcVars
StateEditWait(p) ==
  /\ pc[p] = "edit_wait"
  /\ \E ok \in BOOLEAN :
       IF ok
         THEN /\ \E f \in Files : EditorWrites(p, f)
              /\ pc' = [pc EXCEPT ![p] = "edit_push"]
              /\ UNCHANGED result
         ELSE /\ StateEditExit(p, "Editor exited with error")
              /\ DropCopy(p)
  /\ UNCHANGED <<locks, blob, lockOk, unlockCalls, forced, sig, ctx, sessions>>
  /\ UNCHANGED nonProcVars

\* return p.Stack.PushState()
StateEditPush(p) ==
  /\ pc[p] = "edit_push"
  /\ \E ok \in BOOLEAN :
       IF ok /\ PushStateValid(file[p])
         THEN /\ blob' = PushState(stage[p], file[p])
              /\ StateEditExit(p, "")
              /\ UNCHANGED <<file, pulled, edited>>
         ELSE /\ StateEditExit(p, "push state failed")
              /\ DropCopy(p)
              /\ UNCHANGED blob
  /\ UNCHANGED <<locks, lockOk, unlockCalls, forced, sig, ctx, sessions>>
  /\ UNCHANGED nonProcVars

\* deferred p.Stack.Unlock(), then deferred p.Cleanup() drops the local copy
StateEditDeferUnlock_Twice(p) ==
  /\ pc[p] = "edit_defer"
  /\ locks' = releaseLock(stage[p], p)
  /\ unlockCalls' = [unlockCalls EXCEPT ![p] = @ + 2]
  /\ pc' = [pc EXCEPT ![p] = "returned"]
  /\ forced' = forced \ {p}
  /\ file' = [file EXCEPT ![p] = EmptyFile]
  /\ pulled' = [pulled EXCEPT ![p] = EmptyFile]
  /\ edited' = [edited EXCEPT ![p] = FALSE]
  /\ UNCHANGED <<result, blob, lockOk, sig, ctx, sessions>>
  /\ UNCHANGED nonProcVars
StateEditDeferUnlock(p) ==
  /\ pc[p] = "edit_defer"
  /\ locks' = releaseLock(stage[p], p)
  /\ unlockCalls' = [unlockCalls EXCEPT ![p] = @ + 1]
  /\ pc' = [pc EXCEPT ![p] = "returned"]
  /\ forced' = forced \ {p}
  /\ file' = [file EXCEPT ![p] = EmptyFile]
  /\ pulled' = [pulled EXCEPT ![p] = EmptyFile]
  /\ edited' = [edited EXCEPT ![p] = FALSE]
  /\ UNCHANGED <<result, blob, lockOk, sig, ctx, sessions>>
  /\ UNCHANGED nonProcVars

(* ------------- deploy / remove / refresh: Stack.Run (4.4) ------------- *)
\* Idle -> Locking -> Running | Failed(LockHeld)
StackRunLock(p) ==
  /\ pc[p] = "run_lock"
  /\ locks' = acquireLock(stage[p], p)
  /\ IF CanAcquire(stage[p])
       THEN /\ pc' = [pc EXCEPT ![p] = "running"]
            /\ lockOk' = [lockOk EXCEPT ![p] = TRUE]
            /\ UNCHANGED result
       ELSE /\ pc' = [pc EXCEPT ![p] = "returned"]
            /\ result' = [result EXCEPT ![p] = "lock held"]
            /\ UNCHANGED lockOk
  /\ UNCHANGED <<blob, file, pulled, edited, unlockCalls, forced, sig, ctx, sessions>>
  /\ UNCHANGED nonProcVars

\* the provisioning engine updates the state blob while it works
EngineWrite(p) ==
  /\ pc[p] \in {"running", "cancelling"}
  /\ \E b \in Blobs \ {blob[stage[p]]} : blob' = [blob EXCEPT ![stage[p]] = b]
  /\ UNCHANGED <<pc, result, locks, file, pulled, edited, lockOk, unlockCalls, forced, sig, ctx, sessions>>
  /\ UNCHANGED nonProcVars

\* Running -> Unlocking, the engine completed or failed
StackRunFinish(p) ==
  /\ pc[p] = "running"
  /\ \E err \in {"", "run failed"} : result' = [result EXCEPT ![p] = err]
  /\ pc' = [pc EXCEPT ![p] = "unlocking"]
  /\ UNCHANGED <<locks, blob, file, pulled, edited, lockOk, unlockCalls, forced, sig, ctx, sessions>>
  /\ UNCHANGED nonProcVars

\* Running -> Cancelling, the calling context was cancelled mid-run
StackRunCancel(p) ==
  /\ pc[p] = "running"
  /\ ctx[p]
  /\ pc' = [pc EXCEPT ![p] = "cancelling"]
  /\ UNCHANGED <<result, locks, blob, file, pulled, edited, lockOk, unlockCalls, forced, sig, ctx, sessions>>
  /\ UNCHANGED nonProcVars

\* Cancelling: the engine acknowledged the stop request or the wait timed out
StackRunStopped_SkipUnlock(p) ==
  /\ pc[p] = "cancelling"
  /\ pc' = [pc EXCEPT ![p] = "returned"]
  /\ UNCHANGED <<result, locks, blob, file, pulled, edited, lockOk, unlockCalls, forced, sig, ctx, sessions>>
  /\ UNCHANGED nonProcVars
StackRunStopped(p) ==
  /\ pc[p] = "cancelling"
  /\ pc' = [pc EXCEPT ![p] = "unlocking"]
  /\ UNCHANGED <<result, locks, blob, file, pulled, edited, lockOk, unlockCalls, forced, sig, ctx, sessions>>
  /\ UNCHANGED nonProcVars

\* Unlocking -> Idle, Stack.Run returns to the handler
StackRunUnlock(p) ==
  /\ pc[p] = "unlocking"
  /\ locks' = releaseLock(stage[p], p)
  /\ unlockCalls' = [unlockCalls EXCEPT ![p] = @ + 1]
  /\ pc' = [pc EXCEPT ![p] = "returned"]
  /\ forced' = forced \ {p}
  /\ UNCHANGED <<result, blob, file, pulled, edited, lockOk, sig, ctx, sessions>>
  /\ UNCHANGED nonProcVars

(* ------------------- unlock (main.go 875-890) ------------------------- *)
\* err = p.Stack.Cancel(); on error return ReadableError(err, "")
UnlockCancel_OwnLockOnly(p) ==
  /\ pc[p] = "cancel"
  /\ locks' = releaseLock(stage[p], p)
  /\ UNCHANGED forced
  /\ result' = [result EXCEPT ![p] = ""]
  /\ pc' = [pc EXCEPT ![p] = "returned"]
  /\ UNCHANGED <<blob, file, pulled, edited, lockOk, unlockCalls, sig, ctx, sessions>>
  /\ UNCHANGED nonProcVars
UnlockCancel(p) ==
  /\ pc[p] = "cancel"
  /\ \E ok \in BOOLEAN :
       IF ok
         THEN /\ locks' = forceClear(stage[p])
              /\ forced' = forced \cup {r.holderId : r \in RecordsOf(stage[p])}
              /\ result' = [result EXCEPT ![p] = ""]
         ELSE /\ UNCHANGED <<locks, forced>>
              /\ result' = [result EXCEPT ![p] = "cancel failed"]
  /\ pc' = [pc EXCEPT ![p] = "returned"]
  /\ UNCHANGED <<blob, file, pulled, edited, lockOk, unlockCalls, sig, ctx, sessions>>
  /\ UNCHANGED nonProcVars

(* -------------- import-unstable: Stack.Import (4.4) ------------------- *)
ImportLock(p) ==
  /\ pc[p] = "imp_lock"
  /\ locks' = acquireLock(stage[p], p)
  /\ IF CanAcquire(stage[p])
       THEN /\ pc' = [pc EXCEPT ![p] = "importing"]
            /\ lockOk' = [lockOk EXCEPT ![p] = TRUE]
            /\ UNCHANGED result
       ELSE /\ pc' = [pc EXCEPT ![p] = "returned"]
            /\ result' = [result EXCEPT ![p] = "lock held"]
            /\ UNCHANGED lockOk
  /\ UNCHANGED <<blob, file, pulled, edited, unlockCalls, forced, sig, ctx, sessions>>
  /\ UNCHANGED nonProcVars

\* where Import goes when importResource failed
ImportFailed_Leak(p) == [pc EXCEPT ![p] = "returned"]
ImportFailed(p) == [pc EXCEPT ![p] = "imp_unlock"]

\* backend importResource(stageKey, type, name, id, parent)
ImportResource(p) ==
  /\ pc[p] = "importing"
  /\ \E ok \in BOOLEAN :
       IF ok
         THEN /\ \E b \in Blobs : blob' = [blob EXCEPT ![stage[p]] = b]
              /\ pc' = [pc EXCEPT ![p] = "imp_unlock"]
              /\ UNCHANGED result
         ELSE /\ UNCHANGED blob
              /\ pc' = ImportFailed(p)
              /\ result' = [result EXCEPT ![p] = "import failed"]
  /\ UNCHANGED <<locks, file, pulled, edited, lockOk, unlockCalls, forced, sig, ctx, sessions>>
  /\ UNCHANGED nonProcVars

ImportUnlock(p) ==
  /\ pc[p] = "imp_unlock"
  /\ locks' = releaseLock(stage[p], p)
  /\ unlockCalls' = [unlockCalls EXCEPT ![p] = @ + 1]
  /\ pc' = [pc EXCEPT ![p] = "returned"]
  /\ forced' = forced \ {p}
  /\ UNCHANGED <<result, blob, file, pulled, edited, lockOk, sig, ctx, sessions>>
  /\ UNCHANGED nonProcVars

(* ---------------- server (main.go 1046-1066, 4.5) --------------------- *)
\* Start's exclusive bind of the per-project address
CanBind_Always == TRUE
CanBind == sessions = {}

\* err = s.Start(cli.Context); ErrServerAlreadyRunning -> "Server already running"
ServerStart(p) ==
  /\ pc[p] = "srv_start"
  /\ IF CanBind
       THEN /\ sessions' = sessions \cup {p}
            /\ pc' = [pc EXCEPT ![p] = "serving"]
            /\ UNCHANGED result
       ELSE /\ UNCHANGED sessions
            /\ pc' = [pc EXCEPT ![p] = "returned"]
            /\ result' = [result EXCEPT ![p] = "Server already running"]
  /\ UNCHANGED <<locks, blob, file, pulled, edited, lockOk, unlockCalls, forced, sig, ctx>>
  /\ UNCHANGED nonProcVars

\* the session lives until its context is cancelled
ServerStop(p) ==
  /\ pc[p] = "serving"
  /\ ctx[p]
  /\ sessions' = sessions \ {p}
  /\ pc' = [pc EXCEPT ![p] = "returned"]
  /\ UNCHANGED <<result, locks, blob, file, pulled, edited, lockOk, unlockCalls, forced, sig, ctx>>
  /\ UNCHANGED nonProcVars

(* ------------------- run() and main() (41-80) ------------------------- *)
Alive(p) == pc[p] \notin {"idle", "crashed"}

\* the phases in which the handler watches cli.Context
WatchesContext(p) == pc[p] \in {"running", "serving"}

\* signal.Notify(interruptChannel, syscall.SIGINT): SIGINT is buffered
Interrupt_Kill(p) ==
  /\ WatchesContext(p)
  /\ sig[p] = 0
  /\ pc' = [pc EXCEPT ![p] = "idle"]
  /\ sessions' = sessions \ {p}
  /\ UNCHANGED <<result, locks, blob, file, pulled, edited, lockOk, unlockCalls, forced, sig, ctx>>
  /\ UNCHANGED nonProcVars
Interrupt(p) ==
  /\ WatchesContext(p)
  /\ sig[p] = 0
  /\ sig' = [sig EXCEPT ![p] = 1]
  /\ UNCHANGED <<pc, result, locks, blob, file, pulled, edited, lockOk, unlockCalls, forced, ctx, sessions>>
  /\ UNCHANGED nonProcVars

\* go func() { <-interruptChannel; cancel() }()
InterruptGoroutine(p) ==
  /\ Alive(p)
  /\ sig[p] = 1
  /\ sig' = [sig EXCEPT ![p] = 2]
  /\ ctx' = [ctx EXCEPT ![p] = TRUE]
  /\ UNCHANGED <<pc, result, locks, blob, file, pulled, edited, lockOk, unlockCalls, forced, sessions>>
  /\ UNCHANGED nonProcVars

\* the memory of an ended process is gone
ProcessGone(p) ==
  /\ result' = [result EXCEPT ![p] = ""]
  /\ file' = [file EXCEPT ![p] = EmptyFile]
  /\ pulled' = [pulled EXCEPT ![p] = EmptyFile]
  /\ edited' = [edited EXCEPT ![p] = FALSE]
  /\ lockOk' = [lockOk EXCEPT ![p] = FALSE]
  /\ unlockCalls' = [unlockCalls EXCEPT ![p] = 0]
  /\ forced' = forced \ {p}
  /\ sig' = [sig EXCEPT ![p] = 0]
  /\ ctx' = [ctx EXCEPT ![p] = FALSE]

\* main() 47-69: if err != nil { ...; os.Exit(1) }
ExitCodeOf_RecoverableIsOk(err) ==
  IF err \in {"", "Could not lock state", "Server already running"} THEN 0 ELSE 1
ExitCodeOf(err) == IF err = "" THEN 0 ELSE 1

\* main(): exit code 0 when run() returned nil, os.Exit(1) otherwise
ExitCode(p) == ExitCodeOf(result[p])

\* run() returns (defer cancel()) and main() ends the process
MainExit(p) ==
  /\ pc[p] = "returned"
  /\ pc' = [pc EXCEPT ![p] = "idle"]
  /\ ProcessGone(p)
  /\ UNCHANGED <<locks, blob, sessions>>
  /\ UNCHANGED nonProcVars

\* SIGKILL while a mutating operation is in flight: no deferred call runs
Crash(p) ==
  /\ Alive(p)
  /\ Holds(p)
  /\ pc' = [pc EXCEPT ![p] = "crashed"]
  /\ ProcessGone(p)
  /\ UNCHANGED <<locks, blob, sessions>>
  /\ UNCHANGED nonProcVars

Next ==
  \E p \in Procs :
    \/ Start(p)
    \/ StateEditLock(p)
    \/ StateEditPull(p)
    \/ StateEditStart(p)
    \/ StateEditWait(p)
    \/ StateEditPush(p)
    \/ StateEditDeferUnlock(p)
    \/ StackRunLock(p)
    \/ EngineWrite(p)
    \/ StackRunFinish(p)
    \/ StackRunCancel(p)
    \/ StackRunStopped(p)
    \/ StackRunUnlock(p)
    \/ UnlockCancel(p)
    \/ ImportLock(p)
    \/ ImportResource(p)
    \/ ImportUnlock(p)
    \/ ServerStart(p)
    \/ ServerStop(p)
    \/ Interrupt(p)
    \/ InterruptGoroutine(p)
    \/ MainExit(p)
    \/ Crash(p)

Spec == Init /\ [][Next]_vars

(* --------------- dispatch in run() and main() -------------------------- *)
\* the state of the concurrent processes while one invocation is dispatched
ProcsIdle ==
  /\ pc = [p \in Procs |-> "idle"]
  /\ result = [p \in Procs |-> ""]
  /\ locks = {}
  /\ blob = [k \in StageKeys |-> 1]
  /\ file = [p \in Procs |-> EmptyFile]
  /\ pulled = [p \in Procs |-> EmptyFile]
  /\ edited = [p \in Procs |-> FALSE]
  /\ lockOk = [p \in Procs |-> FALSE]
  /\ unlockCalls = [p \in Procs |-> 0]
  /\ forced = {}
  /\ sig = [p \in Procs |-> 0]
  /\ ctx = [p \in Procs |-> FALSE]
  /\ sessions = {}

\* the process is started with any argument vector
CliInit ==
  /\ ProcsIdle
  /\ NoResolver
  /\ NoRun
  /\ NoSecrets
  /\ NoLog
  /\ NoChannel
  /\ argv \in Argvs
  /\ cli = NoCli
  /\ runPc = "start"
  /\ runErr = ""
  /\ helpCalls = <<>>
  /\ handlerCalls = <<>>

\* CommandPath.PrintHelp (1282-1369): renders the path, returns ErrHelp
PrintHelp(path) ==
  /\ helpCalls' = Append(helpCalls, path)
  /\ runErr' = ErrHelp

\* run() 82-120: parse the flags, walk the tree, build cli;
\* if cliParseError != nil { return cli.PrintHelp() }
RunDispatch ==
  /\ runPc = "start"
  /\ LET parsed == parseArgs(argv, DefaultFlags, <<>>)
         w == walk(<<"sst">>, parsed.args)
     IN /\ cli' = [flags |-> parsed.flags, arguments |-> w.positionals,
                   path |-> w.path, parseError |-> parsed.err]
        /\ IF parsed.err
             THEN /\ PrintHelp(w.path)
                  /\ runPc' = "returned"
             ELSE /\ runPc' = "setup"
                  /\ UNCHANGED <<runErr, helpCalls>>
  /\ UNCHANGED <<argv, handlerCalls>>
  /\ UNCHANGED nonDispatcherVars

\* run() 122-139: first-run install of the toolchain, an error is returned as is
RunSetup ==
  /\ runPc = "setup"
  /\ \E ok \in BOOLEAN :
       IF ok
         THEN runPc' = "active" /\ UNCHANGED runErr
         ELSE runPc' = "returned" /\ runErr' = "install failed"
  /\ UNCHANGED <<argv, cli, helpCalls, handlerCalls>>
  /\ UNCHANGED nonDispatcherVars

\* the condition of line 150 under which help is printed instead of running
WantsHelp_IgnoreRequired(c) == c.flags.help \/ ~HasRun(c.path)
WantsHelp(c) ==
  c.flags.help \/ ~HasRun(c.path) \/ Len(c.arguments) < Required(c.path)

\* run() 141-154: help for the active node, or its handler
RunActive ==
  /\ runPc = "active"
  /\ IF WantsHelp(cli)
       THEN /\ PrintHelp(cli.path)
            /\ UNCHANGED handlerCalls
       ELSE /\ handlerCalls' = Append(handlerCalls, cli.path)
            /\ \E e \in {"", "handler failed"} : runErr' = e
            /\ UNCHANGED helpCalls
  /\ runPc' = "returned"
  /\ UNCHANGED <<argv, cli>>
  /\ UNCHANGED nonDispatcherVars

\* main() ends the process
MainReturn ==
  /\ runPc = "returned"
  /\ runPc' = "exited"
  /\ UNCHANGED <<argv, cli, runErr, helpCalls, handlerCalls>>
  /\ UNCHANGED nonDispatcherVars

CliNext ==
  \/ RunDispatch
  \/ RunSetup
  \/ RunActive
  \/ MainReturn

allVars == <<vars, dispatcherVars, resolverVars, lifecycleVars,
             secretVars, logVars, channelVars>>

CliSpec == CliInit /\ [][CliNext]_allVars

(* -------------------- getStage (main.go 1451-1478) --------------------- *)
StageInit ==
  /\ ProcsIdle
  /\ NoInvocation
  /\ NoRun
  /\ NoSecrets
  /\ NoLog
  /\ NoChannel
  /\ username \in Usernames \cup {NoUser}
  /\ marker \in StageNames \cup {""}
  /\ stdin \in Inputs
  /\ stagePc = "idle"
  /\ stageName = ""
  /\ stageCalls = <<>>

\* the record of the call in progress
ThisCall == stageCalls[Len(stageCalls)]
SetCall(field, v) == [stageCalls EXCEPT ![Len(stageCalls)][field] = v]

\* initProject calls getStage(cli, cfgPath); stage := cli.String("stage")
GetStageCall ==
  /\ stagePc = "idle"
  /\ Len(stageCalls) < MaxCalls
  /\ \E f \in StageNames \cup {""} :
       /\ cli' = [NoCli EXCEPT !.flags.stage = f]
       /\ stageName' = f
       /\ stageCalls' = Append(stageCalls,
            [flag |-> f, marker0 |-> marker, stdin0 |-> stdin, prompts |-> 0,
             reads |-> 0, writes |-> <<>>, stage |-> "", err |-> FALSE, done |-> FALSE])
       /\ stagePc' = IF f = "" THEN "load" ELSE "env"
  /\ UNCHANGED <<username, marker, stdin>>
  /\ UNCHANGED nonResolverVars

\* stage = project.LoadPersonalStage(cfgPath)
GetStageLoad_SkipMarker ==
  /\ stagePc = "load"
  /\ stageName' = ""
  /\ stagePc' = "guess"
  /\ UNCHANGED <<username, marker, stdin, stageCalls, cli>>
  /\ UNCHANGED nonResolverVars
GetStageLoad ==
  /\ stagePc = "load"
  /\ stageName' = LoadPersonalStage
  /\ stagePc' = IF LoadPersonalStage = "" THEN "guess" ELSE "env"
  /\ UNCHANGED <<username, marker, stdin, stageCalls, cli>>
  /\ UNCHANGED nonResolverVars

\* stage = guessStage()
GetStageGuess ==
  /\ stagePc = "guess"
  /\ stageName' = guessStage(username)
  /\ stagePc' = IF guessStage(username) = "" THEN "prompt" ELSE "persist"
  /\ UNCHANGED <<username, marker, stdin, stageCalls, cli>>
  /\ UNCHANGED nonResolverVars

\* the prompts and reads of a call are counted up to MaxPrompts
CountUp(n) == IF n < MaxPrompts THEN n + 1 ELSE n

\* fmt.Scanln(&stage) returns an error at the end of input and on an empty line
ScanlnFails == stdin = <<>> \/ Head(stdin) = ""

\* the loop with a read error handed to the caller
GetStagePrompt_ReturnsErr ==
  /\ stagePc = "prompt"
  /\ stdin' = IF stdin = <<>> THEN stdin ELSE Tail(stdin)
  /\ IF ScanlnFails
       THEN /\ stageCalls' = [stageCalls EXCEPT
                 ![Len(stageCalls)].prompts = CountUp(@),
                 ![Len(stageCalls)].reads = CountUp(@),
                 ![Len(stageCalls)].err = TRUE,
                 ![Len(stageCalls)].done = TRUE]
            /\ stagePc' = "idle"
            /\ UNCHANGED stageName
       ELSE /\ stageCalls' = [stageCalls EXCEPT
                 ![Len(stageCalls)].prompts = CountUp(@),
                 ![Len(stageCalls)].reads = CountUp(@)]
            /\ stageName' = Head(stdin) /\ stagePc' = "persist"
  /\ UNCHANGED <<username, marker, cli>>
  /\ UNCHANGED nonResolverVars

\* for { fmt.Print(prompt); _, err := fmt.Scanln(&stage);
\*       if err != nil { continue }; if stage == "" { continue }; break }
GetStagePrompt ==
  /\ stagePc = "prompt"
  /\ stdin' = IF stdin = <<>> THEN stdin ELSE Tail(stdin)
  /\ stageCalls' = [stageCalls EXCEPT ![Len(stageCalls)].prompts = CountUp(@),
                                      ![Len(stageCalls)].reads = CountUp(@)]
  /\ IF ScanlnFails
       THEN UNCHANGED <<stageName, stagePc>>
       ELSE stageName' = Head(stdin) /\ stagePc' = "persist"
  /\ UNCHANGED <<username, marker, cli>>
  /\ UNCHANGED nonResolverVars

\* err := project.SetPersonalStage(cfgPath, stage); on error return "", err
GetStagePersist_Skip ==
  /\ stagePc = "persist"
  /\ stagePc' = "env"
  /\ UNCHANGED <<username, marker, stdin, stageName, stageCalls, cli>>
  /\ UNCHANGED nonResolverVars
GetStagePersist ==
  /\ stagePc = "persist"
  /\ \E ok \in BOOLEAN :
       IF ok
         THEN /\ marker' = stageName
              /\ stageCalls' = SetCall("writes", Append(ThisCall.writes, stageName))
              /\ stagePc' = "env"
         ELSE /\ UNCHANGED marker
              /\ stageCalls' = [stageCalls EXCEPT
                   ![Len(stageCalls)].writes = Append(@, stageName),
                   ![Len(stageCalls)].err = TRUE,
                   ![Len(stageCalls)].done = TRUE]
              /\ stagePc' = "idle"
  /\ UNCHANGED <<username, stdin, stageName, cli>>
  /\ UNCHANGED nonResolverVars

\* godotenv.Load(".env." + stage); return stage, nil
GetStageReturn ==
  /\ stagePc = "env"
  /\ stageCalls' = [stageCalls EXCEPT ![Len(stageCalls)].stage = stageName,
                                      ![Len(stageCalls)].done = TRUE]
  /\ stagePc' = "idle"
  /\ UNCHANGED <<username, marker, stdin, stageName, cli>>
  /\ UNCHANGED nonResolverVars

StageNext ==
  \/ GetStageCall
  \/ GetStageLoad
  \/ GetStageGuess
  \/ GetStagePrompt
  \/ GetStagePersist
  \/ GetStageReturn

StageSpec == StageInit /\ [][StageNext]_allVars

(* ------------- Stack.Run and its events (4.4, 4.6) --------------------- *)
\* deploy, remove or refresh is about to call p.Stack.Run with OnEvent set
RunInit ==
  /\ ProcsIdle
  /\ NoInvocation
  /\ NoResolver
  /\ NoSecrets
  /\ NoLog
  /\ NoChannel
  /\ lifecycle = "Idle"
  /\ command \in RunCommands
  /\ otherHolder \in BOOLEAN
  /\ held = FALSE
  /\ onEvent = <<>>
  /\ eventsAtUnlock = -1

Emit(e) == onEvent' = Append(onEvent, e)

ProgressCount == Cardinality({i \in DOMAIN onEvent : onEvent[i] \in ProgressEvents})

\* Idle -> Locking: a new run begins with an empty event sequence
StackBegin ==
  /\ lifecycle = "Idle"
  /\ lifecycle' = "Locking"
  /\ command' \in RunCommands
  /\ onEvent' = <<>>
  /\ eventsAtUnlock' = -1
  /\ UNCHANGED <<otherHolder, held>>
  /\ UNCHANGED nonLifecycleVars

\* Lock(): Locking -> Failed(LockHeld) on AlreadyLocked, fail-fast;
\* otherwise the run holds the lock, Run's precondition
StackLock ==
  /\ lifecycle = "Locking"
  /\ IF otherHolder
       THEN lifecycle' = "Failed(LockHeld)" /\ held' = FALSE
       ELSE lifecycle' = "Locked" /\ held' = TRUE
  /\ UNCHANGED <<command, otherHolder, onEvent, eventsAtUnlock>>
  /\ UNCHANGED nonLifecycleVars

\* Failed(LockHeld): the error is surfaced, the holder may let go meanwhile
StackLockFailed ==
  /\ lifecycle = "Failed(LockHeld)"
  /\ lifecycle' = "Idle"
  /\ otherHolder' \in BOOLEAN
  /\ UNCHANGED <<command, held, onEvent, eventsAtUnlock>>
  /\ UNCHANGED nonLifecycleVars

\* Run: emits a Started event and drives the engine
StackRunStarted ==
  /\ lifecycle = "Locked"
  /\ Emit("Started")
  /\ lifecycle' = "Running"
  /\ UNCHANGED <<command, otherHolder, held, eventsAtUnlock>>
  /\ UNCHANGED nonLifecycleVars

\* Run: relays an engine-produced event verbatim and in order
StackRelay ==
  /\ lifecycle \in {"Running", "Cancelling"}
  /\ ProgressCount < MaxProgress
  /\ \E e \in ProgressEvents : Emit(e)
  /\ UNCHANGED <<lifecycle, command, otherHolder, held, eventsAtUnlock>>
  /\ UNCHANGED nonLifecycleVars

\* Run: on completion (or operation error) emits one terminal event
StackRunCompleted ==
  /\ lifecycle = "Running"
  /\ \E e \in TerminalEvents : Emit(e)
  /\ lifecycle' = "Unlocking"
  /\ UNCHANGED <<command, otherHolder, held, eventsAtUnlock>>
  /\ UNCHANGED nonLifecycleVars

\* Running -> Cancelling: the calling context is cancelled mid-run
StackCancelling ==
  /\ lifecycle = "Running"
  /\ lifecycle' = "Cancelling"
  /\ UNCHANGED <<command, otherHolder, held, onEvent, eventsAtUnlock>>
  /\ UNCHANGED nonLifecycleVars

\* the cancel path without its terminal event
StackEngineStopped_NoTerminal ==
  /\ lifecycle = "Cancelling"
  /\ lifecycle' = "Unlocking"
  /\ UNCHANGED <<command, otherHolder, held, onEvent, eventsAtUnlock>>
  /\ UNCHANGED nonLifecycleVars

\* Cancelling: the engine acknowledged the stop or the wait timed out;
\* the run ends with its terminal event and still goes on to Unlock()
StackEngineStopped ==
  /\ lifecycle = "Cancelling"
  /\ Emit("Failed")
  /\ lifecycle' = "Unlocking"
  /\ UNCHANGED <<command, otherHolder, held, eventsAtUnlock>>
  /\ UNCHANGED nonLifecycleVars

\* Unlock(): Unlocking -> Idle, the lock is released
StackUnlock ==
  /\ lifecycle = "Unlocking"
  /\ held' = FALSE
  /\ eventsAtUnlock' = Len(onEvent)
  /\ otherHolder' \in BOOLEAN
  /\ lifecycle' = "Idle"
  /\ UNCHANGED <<command, onEvent>>
  /\ UNCHANGED nonLifecycleVars

RunNext ==
  \/ StackBegin
  \/ StackLock
  \/ StackLockFailed
  \/ StackRunStarted
  \/ StackRelay
  \/ StackRunCompleted
  \/ StackCancelling
  \/ StackEngineStopped
  \/ StackUnlock

RunSpec == RunInit /\ [][RunNext]_allVars

(* ------- secret set / remove / list (main.go 580-600, 646-711) --------- *)
\* concurrent processes are about to run secret commands on one (app, stage)
SecretInit ==
  /\ ProcsIdle
  /\ NoInvocation
  /\ NoResolver
  /\ NoRun
  /\ NoLog
  /\ NoChannel
  /\ secrets \in SecretMaps
  /\ secretCall = [p \in Procs |-> NoSecretCall]

\* the arguments a secret command is called with
SecretArgs ==
  {[NoSecretCall EXCEPT !.cmd = "secret set", !.key = k, !.value = v] :
     k \in SecretKeys, v \in SecretValues}
  \cup {[NoSecretCall EXCEPT !.cmd = "secret remove", !.key = k] : k \in SecretKeys}
  \cup {[NoSecretCall EXCEPT !.cmd = "secret list"]}

\* key := cli.Positional(0); value := cli.Positional(1); p, err := initProject(cli)
SecretStart(p) ==
  /\ pc[p] = "idle"
  /\ secretCall[p] = NoSecretCall
  /\ \E a \in SecretArgs : secretCall' = [secretCall EXCEPT ![p] = a]
  /\ \E ok \in BOOLEAN :
       IF ok
         THEN pc' = [pc EXCEPT ![p] = "sec_get"] /\ UNCHANGED result
         ELSE /\ pc' = [pc EXCEPT ![p] = "returned"]
              /\ result' = [result EXCEPT ![p] = "Could not find stage"]
  /\ UNCHANGED secrets
  /\ UNCHANGED nonSecretVars

\* where the handler goes on after GetSecrets
AfterGet(cmd) == CASE cmd = "secret set" -> "sec_set"
                   [] cmd = "secret remove" -> "sec_remove"
                   [] cmd = "secret list" -> "sec_list"

\* secrets, err := provider.GetSecrets(backend, app, stage)
SecretGet(p) ==
  /\ pc[p] = "sec_get"
  /\ \E ok \in BOOLEAN :
       IF ok
         THEN /\ secretCall' = [secretCall EXCEPT ![p].got = TRUE, ![p].fetched = secrets]
              /\ pc' = [pc EXCEPT ![p] = AfterGet(secretCall[p].cmd)]
              /\ UNCHANGED result
         ELSE /\ pc' = [pc EXCEPT ![p] = "returned"]
              /\ result' = [result EXCEPT ![p] = "Could not get secrets"]
              /\ UNCHANGED secretCall
  /\ UNCHANGED secrets
  /\ UNCHANGED nonSecretVars

\* err = provider.PutSecrets(backend, app, stage, secrets): the whole map is stored
PutSecrets(p, m) ==
  /\ secretCall' = [secretCall EXCEPT ![p].puts = Append(@, m)]
  /\ pc' = [pc EXCEPT ![p] = "returned"]
  /\ \E ok \in BOOLEAN :
       IF ok
         THEN secrets' = m /\ result' = [result EXCEPT ![p] = ""]
         ELSE UNCHANGED secrets /\ result' = [result EXCEPT ![p] = "Could not set secret"]

\* secrets[key] = value; PutSecrets
SecretSet(p) ==
  /\ pc[p] = "sec_set"
  /\ PutSecrets(p, [secretCall[p].fetched EXCEPT ![secretCall[p].key] = secretCall[p].value])
  /\ UNCHANGED nonSecretVars

\* if _, ok := secrets[key]; !ok { return "Secret ... does not exist ..." }
\* delete(secrets, key); PutSecrets
SecretRemove_NoCheck(p) ==
  /\ pc[p] = "sec_remove"
  /\ PutSecrets(p, [secretCall[p].fetched EXCEPT ![secretCall[p].key] = Absent])
  /\ UNCHANGED nonSecretVars
SecretRemove(p) ==
  /\ pc[p] = "sec_remove"
  /\ IF secretCall[p].fetched[secretCall[p].key] = Absent
       THEN /\ pc' = [pc EXCEPT ![p] = "returned"]
            /\ result' = [result EXCEPT ![p] = "Secret does not exist"]
            /\ UNCHANGED <<secrets, secretCall>>
       ELSE PutSecrets(p, [secretCall[p].fetched EXCEPT ![secretCall[p].key] = Absent])
  /\ UNCHANGED nonSecretVars

\* for key, value := range secrets { fmt.Println(key, "=", value) }; return nil
SecretList(p) ==
  /\ pc[p] = "sec_list"
  /\ pc' = [pc EXCEPT ![p] = "returned"]
  /\ result' = [result EXCEPT ![p] = ""]
  /\ UNCHANGED <<secrets, secretCall>>
  /\ UNCHANGED nonSecretVars

SecretNext ==
  \E p \in Procs :
    \/ SecretStart(p)
    \/ SecretGet(p)
    \/ SecretSet(p)
    \/ SecretRemove(p)
    \/ SecretList(p)

SecretSpec == SecretInit /\ [][SecretNext]_allVars

(* ---- logging and error rendering (main.go 33-69, 1371-1449, 7) -------- *)
\* errors run() returns that are *util.ReadableError
HandlerReadableErrors == {"Could not find sst.config.ts"}
\* errors run() returns that are not: one that TransformError classifies, one it does not
ClassifiedError == "classified failure"
UnexpectedError == "unclassified failure"
RunErrors == HandlerReadableErrors \cup {ErrHelp, ClassifiedError, UnexpectedError}

\* TransformError: a classified error becomes user-actionable, any other is kept
TransformError(err) ==
  IF err = ClassifiedError THEN "classified failure explained" ELSE err

\* readableErr, ok := err.(*util.ReadableError)
Readable(err) == err \in HandlerReadableErrors \cup {ErrHelp, "classified failure explained"}

\* readableErr.Error(): ErrHelp has the empty message
Message(err) == IF err = ErrHelp THEN "" ELSE err

GenericMessage ==
  "Unexpected error occurred. Please check the logs or run with --verbose for more details."

\* configureLog: writers := []io.Writer{logFile}; with --verbose also os.Stderr
configureLog_AlwaysStderr(c) == {"logFile", "stderr"}
configureLog(c) == IF c.flags.verbose THEN {"logFile", "stderr"} ELSE {"logFile"}

\* a record of the slog default logger
Record(msg, err) == [inv |-> invocation, msg |-> msg, err |-> err]

\* what the terminal shows: a slog record on stderr, or a line of ui.Error
OnStderr(rec) == [from |-> "slog", msg |-> rec.msg, err |-> rec.err]
UiError(msg) == [from |-> "ui", msg |-> msg, err |-> ""]

\* slog.Info / slog.Error followed by further terminal output
Slog(rec, more) ==
  /\ logs' = [logs EXCEPT ![logFile] = Append(@, rec)]
  /\ terminal' = (IF "stderr" \in configureLog(cli)
                    THEN Append(terminal, OnStderr(rec)) ELSE terminal) \o more

LogInit ==
  /\ ProcsIdle
  /\ NoInvocation
  /\ NoResolver
  /\ NoRun
  /\ NoSecrets
  /\ NoChannel
  /\ NoLog

\* a process starts in the project directory: logFile is a new temporary
\* file (33-39), the flags are parsed and configureLog(cli) is called (117)
LogProcessStart ==
  /\ runPc \in {"off", "exited"}
  /\ invocation < MaxInvocations
  /\ invocation' = invocation + 1
  /\ logFile' = "tmp"
  /\ logs' = [logs EXCEPT !["tmp"] = <<>>]
  /\ terminal' = <<>>
  /\ \E v \in BOOLEAN : cli' = [NoCli EXCEPT !.flags.verbose = v]
  /\ runPc' = "active"
  /\ runErr' = ""
  /\ UNCHANGED nonLogVars

\* initProject 1372: slog.Info("initializing project", ...)
LogInitProject ==
  /\ runPc = "active"
  /\ Slog(Record("initializing project", ""), <<>>)
  /\ runPc' = "init"
  /\ UNCHANGED <<invocation, logFile, cli, runErr>>
  /\ UNCHANGED nonLogVars

\* initProject 1374-1396: Discover, getStage, project.New or Seek failed
LogInitFails ==
  /\ runPc = "init"
  /\ \E e \in HandlerReadableErrors \cup {ClassifiedError, UnexpectedError} : runErr' = e
  /\ runPc' = "returned"
  /\ UNCHANGED <<invocation, logFile, logs, terminal, cli>>
  /\ UNCHANGED nonLogVars

\* nextLogFile, err := os.Create(".../sst.log"): the file is truncated;
\* io.Copy(nextLogFile, logFile): it receives the temporary log from its start
NextLogFile == logs["tmp"]

\* initProject 1393-1406: copy the temporary log into sst.log, rebind
\* logFile to it and configureLog(cli) again
LogRebind ==
  /\ runPc = "init"
  /\ logs' = [logs EXCEPT !["sst.log"] = NextLogFile]
  /\ logFile' = "sst.log"
  /\ runPc' = "project"
  /\ UNCHANGED <<invocation, terminal, cli, runErr>>
  /\ UNCHANGED nonLogVars

\* initProject 1433: slog.Info("loaded config", ...)
LogLoaded ==
  /\ runPc = "project"
  /\ Slog(Record("loaded config", ""), <<>>)
  /\ runPc' = "handler"
  /\ UNCHANGED <<invocation, logFile, cli, runErr>>
  /\ UNCHANGED nonLogVars

\* run() returns: help, a handler without a project, or the handler's result
LogRunReturns ==
  /\ runPc \in {"active", "project", "handler"}
  /\ \E e \in RunErrors \cup {""} : runErr' = e
  /\ runPc' = "returned"
  /\ UNCHANGED <<invocation, logFile, logs, terminal, cli>>
  /\ UNCHANGED nonLogVars

\* main() 47-69: slog.Error("exited with error", "err", err), then the
\* message of a ReadableError, or the generic message, through ui.Error
LogMainExit ==
  /\ runPc = "returned"
  /\ IF runErr = ""
       THEN UNCHANGED <<logs, terminal>>
       ELSE LET err == TransformError(runErr) IN
              Slog(Record("exited with error", err),
                   IF Readable(err)
                     THEN IF Message(err) # "" THEN <<UiError(Message(err))>> ELSE <<>>
                     ELSE <<UiError(GenericMessage)>>)
  /\ runPc' = "exited"
  /\ UNCHANGED <<invocation, logFile, cli, runErr>>
  /\ UNCHANGED nonLogVars

LogNext ==
  \/ LogProcessStart
  \/ LogInitProject
  \/ LogInitFails
  \/ LogRebind
  \/ LogLoaded
  \/ LogRunReturns
  \/ LogMainExit

LogSpec == LogInit /\ [][LogNext]_allVars

(* --------- concurrent runs and their consumers (366-372, 4.6) ---------- *)
\* the events are told apart by the run that produced them
Event(r, e) == [run |-> r, ev |-> e]

ChannelInit ==
  /\ ProcsIdle
  /\ NoInvocation
  /\ NoResolver
  /\ NoRun
  /\ NoSecrets
  /\ NoLog
  /\ NoChannel

\* every ui receives the events of every run
Consumers_Shared(r) == Runs
\* ui := ui.New(...); OnEvent: ui.Trigger: the consumer of a run is the ui
\* its own handler created before it called Stack.Run
Consumers(r) == {r}

\* Stack.Run produces an event by calling input.OnEvent with it
OnEvent(r, e) ==
  /\ produced' = [produced EXCEPT ![r] = Append(@, Event(r, e))]
  /\ received' = [c \in Runs |-> IF c \in Consumers(r)
                                   THEN Append(received[c], Event(r, e))
                                   ELSE received[c]]

ChannelRunning(r) ==
  /\ produced[r] # <<>>
  /\ produced[r][Len(produced[r])].ev \notin TerminalEvents

ChannelProgressCount(r) ==
  Cardinality({i \in DOMAIN produced[r] : produced[r][i].ev \in ProgressEvents})

\* the handler has created its ui and calls Stack.Run, which emits Started
ChannelStarted(r) ==
  /\ produced[r] = <<>>
  /\ OnEvent(r, "Started")
  /\ UNCHANGED nonChannelVars

\* Run relays an engine-produced event
ChannelRelay(r) ==
  /\ ChannelRunning(r)
  /\ ChannelProgressCount(r) < MaxProgress
  /\ \E e \in ProgressEvents : OnEvent(r, e)
  /\ UNCHANGED nonChannelVars

\* Run ends with one terminal event
ChannelCompleted(r) ==
  /\ ChannelRunning(r)
  /\ \E e \in TerminalEvents : OnEvent(r, e)
  /\ UNCHANGED nonChannelVars

ChannelNext ==
  \E r \in Runs :
    \/ ChannelStarted(r)
    \/ ChannelRelay(r)
    \/ ChannelCompleted(r)

ChannelSpec == ChannelInit /\ [][ChannelNext]_allVars

(* ------------------------------ claims -------------------------------- *)
\* the phases in which a process works on the stack under its lock
RunPcs == {"running", "cancelling"}
EditPcs == {"edit_pull", "edit_start", "edit_wait", "edit_push"}
HoldingPcs == RunPcs \cup EditPcs \cup
              {"unlocking", "edit_defer", "importing", "imp_unlock"}

\* p has observed lock success on k and is in the Running state
Running(p, k) == stage[p] = k /\ lockOk[p] /\ pc[p] \in RunPcs \cup EditPcs

\* C1 as stated: for every StageKey at most one process has observed lock
\* success and is Running, and at most one LockRecord exists, in every
\* interleaving of deploy, remove, refresh, state edit and unlock.
C1_Original ==
  \A k \in StageKeys :
    /\ Cardinality({p \in Procs : Running(p, k)}) <= 1
    /\ Cardinality(RecordsOf(k)) <= 1

\* C1 (amended): for every StageKey at most one LockRecord exists, and at
\* most one process is Running on it not counting processes whose LockRecord
\* was force-cleared by unlock; every such process holds the LockRecord.
C1_MutualExclusion ==
  \A k \in StageKeys :
    /\ Cardinality(RecordsOf(k)) <= 1
    /\ Cardinality({p \in Procs : Running(p, k) /\ p \notin forced}) <= 1
    /\ \A p \in Procs : pc[p] \in RunPcs \cup EditPcs /\ p \notin forced => lockOk[p] /\ Holds(p)

\* a process is Running with the lock while a competitor was turned away
C1_Witness ==
  \E p, q \in Procs :
    /\ p # q /\ stage[p] = stage[q]
    /\ Running(p, stage[p]) /\ Holds(p) /\ pc[p] = "running"
    /\ pc[q] = "returned" /\ result[q] = "Could not lock state"

\* C2: when an operation that acquired the lock has returned (success, error
\* or cancellation) it holds no LockRecord, and every LockRecord belongs to
\* an operation still in flight or to a killed process, so a later Lock()
\* by another holder succeeds.
C2_NoLeakedLock ==
  /\ \A p \in Procs : pc[p] \in {"returned", "idle"} => ~(\E r \in locks : r.holderId = p)
  /\ \A r \in locks : pc[r.holderId] \in HoldingPcs \cup {"crashed"}

\* an operation failed after locking, released, and another holder locked
C2_Witness ==
  \E p, q \in Procs :
    /\ p # q /\ stage[p] = stage[q]
    /\ pc[p] = "returned" /\ lockOk[p] /\ result[p] = "Editor exited with error"
    /\ Holds(q)

\* C3: in state edit, after Lock() succeeded, Unlock() has not been called
\* while the handler is between PullState and PushState, and has been called
\* exactly once when the handler has returned, whatever the exit path.
C3_UnlockExactlyOnce ==
  \A p \in Procs :
    /\ pc[p] \in EditPcs \cup {"edit_defer"} => lockOk[p] /\ unlockCalls[p] = 0
    /\ pc[p] = "returned" /\ lockOk[p] => unlockCalls[p] = 1
    /\ pc[p] = "returned" /\ ~lockOk[p] => unlockCalls[p] = 0

\* state edit returned through the failed-PushState exit with one Unlock()
C3_Witness ==
  \E p \in Procs :
    pc[p] = "returned" /\ result[p] = "push state failed" /\ lockOk[p] /\ unlockCalls[p] = 1

\* C4: Lock() in state edit is always able to complete, and when the
\* StageKey has a LockRecord the call returns at once with "Could not lock
\* state", creates no record and reports no success.
C4_LockFailsFast ==
  /\ [](\A p \in Procs : pc[p] = "edit_lock" => ENABLED StateEditLock(p))
  /\ [][\A p \in Procs :
          pc[p] = "edit_lock" /\ pc'[p] # "edit_lock" /\ RecordsOf(stage[p]) # {} =>
            /\ pc'[p] = "returned"
            /\ result'[p] = "Could not lock state"
            /\ locks' = locks
            /\ ~lockOk'[p]]_vars

\* state edit was turned away while another holder keeps its LockRecord
C4_Witness ==
  \E p, q \in Procs :
    /\ p # q /\ stage[p] = stage[q]
    /\ pc[p] = "returned" /\ result[p] = "Could not lock state" /\ ~lockOk[p]
    /\ Holds(q)

\* the blob of k is written in this step
BlobWritten(k) == blob'[k] # blob[k]

\* p performs PullState or PushState in this step
PullsOrPushes(p) == pc[p] \in {"edit_pull", "edit_push"} /\ pc'[p] \notin {pc[p], "crashed"}

\* C5 as stated: state edit performs PullState and PushState only while it
\* holds the LockRecord, and the blob is written only by the process that
\* holds the LockRecord, also when unlock or deploy run concurrently.
C5_Original ==
  [][/\ \A p \in Procs : PullsOrPushes(p) => Holds(p)
     /\ \A k \in StageKeys : BlobWritten(k) =>
          \E p \in Procs : stage[p] = k /\ Holds(p) /\ pc[p] \in HoldingPcs]_vars

\* C5 (amended): state edit performs PullState and PushState only between
\* its successful Lock() and its Unlock(), and then holds the LockRecord
\* unless a concurrent unlock force-cleared it; the blob is written only by
\* a process between its successful Lock() and its Unlock().
C5_StateUnderLock ==
  [][/\ \A p \in Procs : PullsOrPushes(p) =>
          lockOk[p] /\ unlockCalls[p] = 0 /\ (Holds(p) \/ p \in forced)
     /\ \A k \in StageKeys : BlobWritten(k) =>
          \E p \in Procs : /\ stage[p] = k /\ pc[p] \in HoldingPcs
                           /\ lockOk[p] /\ unlockCalls[p] = 0
                           /\ (Holds(p) \/ p \in forced)]_vars

\* state edit has pushed an edited file while holding the LockRecord
C5_Witness ==
  \E p \in Procs :
    /\ pc[p] = "edit_defer" /\ result[p] = "" /\ Holds(p)
    /\ edited[p] /\ blob[stage[p]] = file[p]

C7_CancelForceClears ==
  [][\A p \in Procs :
       pc[p] = "cancel" /\ pc'[p] = "returned" /\ result'[p] = "" =>
         /\ \A r \in locks' : r.stageKey # stage[p]
         /\ \A q \in Procs \ {p} : pc'[q] = pc[q] /\ lockOk'[q] = lockOk[q]]_vars

\* unlock returned while the holder it cleared is still running
C7_Witness ==
  \E p, q \in Procs :
    /\ p # q /\ stage[p] = stage[q]
    /\ pc[p] = "returned" /\ result[p] = "" /\ ~lockOk[p]
    /\ q \in forced /\ pc[q] = "running" /\ RecordsOf(stage[q]) = {}

\* C8 as stated: Import works on the stack only while it holds the
\* LockRecord, and has no LockRecord when it returns after importResource
\* failed.
C8_Original ==
  \A p \in Procs :
    /\ pc[p] = "importing" => Holds(p)
    /\ pc[p] = "returned" /\ result[p] = "import failed" => ~Holds(p)

\* C8 (amended): Import works on the stack only between its successful
\* lock acquisition and its release, holding the LockRecord unless a
\* concurrent unlock force-cleared it, and has no LockRecord when it returns
\* after importResource failed.
C8_ImportUnderLock ==
  \A p \in Procs :
    /\ pc[p] = "importing" => lockOk[p] /\ unlockCalls[p] = 0 /\ (Holds(p) \/ p \in forced)
    /\ pc[p] = "returned" /\ result[p] = "import failed" =>
         unlockCalls[p] = 1 /\ ~(\E r \in locks : r.holderId = p)

\* Import returned its error after importResource failed
C8_Witness ==
  \E p \in Procs :
    pc[p] = "returned" /\ result[p] = "import failed" /\ lockOk[p] /\ p \notin forced

\* SIGINT is buffered while Stack.Run is active
Interrupted(p) == pc[p] \in RunPcs /\ sig[p] = 1

\* the goroutine of run() is scheduled
FairSpec == Spec /\ \A p \in Procs : WF_vars(InterruptGoroutine(p))

\* C9: after SIGINT arrives during an active Run the context is eventually
\* cancelled (by the goroutine, or by run()'s deferred cancel() when the
\* process ends first); a process in Run does not end before Run returns;
\* Cancelling is followed by Unlocking; and a process that ends holds no
\* LockRecord and has released the lock it acquired.
C9_CancelReleasesLock ==
  /\ \A p \in Procs : Interrupted(p) ~> (ctx[p] \/ ~Alive(p))
  /\ [][\A p \in Procs :
          /\ pc[p] \in RunPcs \cup {"unlocking"} => pc'[p] # "idle"
          /\ pc[p] = "cancelling" => pc'[p] \in {"cancelling", "unlocking", "crashed"}
          /\ pc[p] # "idle" /\ pc'[p] = "idle" =>
               ~Holds(p) /\ (lockOk[p] => unlockCalls[p] = 1)]_vars

\* an interrupted Run reached Unlocking with its context cancelled
C9_Witness ==
  \E p \in Procs : pc[p] = "unlocking" /\ sig[p] = 2 /\ ctx[p] /\ Holds(p)

\* C10: at most one coordination session is live for the project directory,
\* and Start() while a session is live opens none and the handler returns
\* "Server already running".
C10_ServerSingleton ==
  /\ [](Cardinality(sessions) <= 1)
  /\ [][\A p \in Procs :
          pc[p] = "srv_start" /\ pc'[p] # "srv_start" /\ sessions # {} =>
            /\ sessions' = sessions
            /\ pc'[p] = "returned"
            /\ result'[p] = "Server already running"]_vars

\* a second Start() was turned away while the first session is live
C10_Witness ==
  \E p, q \in Procs :
    /\ p # q
    /\ pc[p] = "returned" /\ result[p] = "Server already running"
    /\ pc[q] = "serving" /\ sessions = {q}

(* ------------------------- dispatcher claims --------------------------- *)
\* run() has built cli
Dispatched == runPc \in {"setup", "active", "returned", "exited"}
\* run() has returned
Returned == runPc \in {"returned", "exited"}

RootPath == <<"sst">>

\* words[j] names a child of the node reached by the j-1 words before it
Matches(words, j) == words[j] \in Range(Children(RootPath \o SubSeq(words, 1, j - 1)))

\* number of leading words that descend the tree
Depth(words) ==
  CHOOSE n \in 0..Len(words) :
    /\ \A j \in 1..n : Matches(words, j)
    /\ n < Len(words) => ~Matches(words, n + 1)

ExpectedPath(words) == RootPath \o SubSeq(words, 1, Depth(words))
RestOf(words) == SubSeq(words, Depth(words) + 1, Len(words))

\* the tokens of a at the positions in keep, in their original order
RECURSIVE Pick(_, _, _)
Pick(a, keep, i) ==
  IF i > Len(a) THEN <<>>
  ELSE (IF i \in keep THEN <<a[i]>> ELSE <<>>) \o Pick(a, keep, i + 1)

\* tokens that do not start with "--"
NonFlagTokens(a) == Pick(a, {i \in 1..Len(a) : ~Lex(a[i]).flag}, 1)

RECURSIVE IsValue(_, _)
IsValue(a, i) ==
  /\ i > 1
  /\ Lex(a[i - 1]).flag /\ ~Lex(a[i - 1]).eq /\ Lex(a[i - 1]).name \in StringFlags
  /\ ~IsValue(a, i - 1)

IsFlag(a, i) == Lex(a[i]).flag /\ ~IsValue(a, i)
IsWord(a, i) == ~Lex(a[i]).flag /\ ~IsValue(a, i)

\* a flag the parser rejects: unknown, or a string flag with no value left
Rejected(a, i) ==
  /\ IsFlag(a, i)
  /\ \/ Lex(a[i]).name \notin StringFlags \cup BoolFlags
     \/ Lex(a[i]).name \in StringFlags /\ ~Lex(a[i]).eq /\ i = Len(a)

\* the tokens before the first rejected flag
Accepted(a) ==
  IF \E i \in 1..Len(a) : Rejected(a, i)
    THEN SubSeq(a, 1, (CHOOSE i \in 1..Len(a) :
                         Rejected(a, i) /\ \A j \in 1..(i - 1) : ~Rejected(a, j)) - 1)
    ELSE a

WordsOf(a) == Pick(a, {i \in 1..Len(a) : IsWord(a, i)}, 1)

\* the value the last flag token of that name in a gives, or the default
LastFlag(a, name) ==
  LET at == {i \in 1..Len(a) : IsFlag(a, i) /\ Lex(a[i]).name = name}
      last == CHOOSE i \in at : \A j \in at : j <= i
  IN IF at = {} THEN DefaultFlags[name]
     ELSE IF name \in BoolFlags THEN TRUE
     ELSE IF Lex(a[last]).eq THEN Lex(a[last]).value ELSE a[last + 1]

C12_Original ==
  Dispatched /\ ~cli.parseError /\ Children(cli.path) # <<>> =>
    cli.arguments = RestOf(WordsOf(argv))

\* the handler of the resolved node was invoked
HandlerConditions ==
  /\ ~cli.parseError
  /\ ~cli.flags.help
  /\ HasRun(cli.path)
  /\ Len(cli.arguments) >= Required(cli.path)

\* C13 as stated: for every argv the handler of the resolved node is invoked
\* exactly once if and only if parsing succeeded, --help is not set, the
\* node has a handler and enough positionals were given; in every other
\* case help is rendered for the resolved path and no handler is invoked.
C13_Original ==
  Returned =>
    IF HandlerConditions
      THEN handlerCalls = <<cli.path>> /\ helpCalls = <<>>
      ELSE helpCalls = <<cli.path>> /\ handlerCalls = <<>>

\* C13 (amended): unless the first-run toolchain setup failed, in which case
\* run() returns that error with neither a help render nor a handler call,
\* the handler of the resolved node is invoked exactly once if and only if
\* parsing succeeded, --help is not set, the node has a handler and enough
\* positionals were given; otherwise help is rendered once for the resolved
\* path and no handler is invoked.
C13_HelpOrHandler ==
  Returned =>
    IF runErr = "install failed"
      THEN ~cli.parseError /\ helpCalls = <<>> /\ handlerCalls = <<>>
      ELSE IF HandlerConditions
        THEN handlerCalls = <<cli.path>> /\ helpCalls = <<>>
        ELSE helpCalls = <<cli.path>> /\ handlerCalls = <<>>

\* secret set ran with its two required arguments
C13_Witness ==
  /\ runPc = "returned"
  /\ argv = <<"secret", "set", "Foo", "bar">>
  /\ handlerCalls = <<<<"sst", "secret", "set">>>>
  /\ helpCalls = <<>>

\* the first token of argv is a word that names no child of the root
UnknownCommand ==
  /\ argv # <<>>
  /\ ~Lex(argv[1]).flag
  /\ argv[1] \notin Range(Children(RootPath))

\* C14 as stated: an argv whose first token matches no child of the root
\* ends in a help render for the root, no handler, no error from run() and
\* exit code 0.
C14_Original ==
  runPc = "exited" /\ UnknownCommand /\ helpCalls # <<>> =>
    /\ helpCalls = <<RootPath>>
    /\ handlerCalls = <<>>
    /\ runErr = ""
    /\ ExitCodeOf(runErr) = 0

\* C15: a process whose run() has returned exits with code 0 exactly when
\* the returned error is nil and with code 1 for every error; "Could not lock
\* state" and "Server already running" both give exit code 1.
C15_ExitCodes ==
  \A p \in Procs :
    pc[p] = "returned" =>
      /\ ExitCode(p) = 0 <=> result[p] = ""
      /\ result[p] # "" => ExitCode(p) = 1
      /\ result[p] \in {"Could not lock state", "Server already running"} => ExitCode(p) = 1

\* state edit was turned away with exit code 1 and the deploy that held the
\* lock returned with exit code 0
C15_Witness ==
  \E p, q \in Procs :
    /\ pc[p] = "returned" /\ result[p] = "Could not lock state" /\ ExitCode(p) = 1
    /\ pc[q] = "returned" /\ result[q] = "" /\ lockOk[q] /\ ExitCode(q) = 0

(* ----------------------- stage resolver claims ------------------------- *)
\* the first non-empty string of a sequence, "" when there is none
FirstNonEmpty(q) ==
  IF \A i \in 1..Len(q) : q[i] = "" THEN ""
  ELSE q[CHOOSE i \in 1..Len(q) : q[i] # "" /\ \A j \in 1..(i - 1) : q[j] = ""]

\* the calls of getStage that have returned
DoneCalls == {i \in 1..Len(stageCalls) : stageCalls[i].done}

\* C16: a call of getStage that returns a stage returns the first non-empty
\* of: the --stage flag, the marker, the stage guessed from the username,
\* the first word entered at the prompt; with a non-empty --stage flag it
\* never prompts and never reads standard input.
C16_Precedence ==
  /\ \A i \in DoneCalls :
       LET c == stageCalls[i] IN
         /\ ~c.err => c.stage # "" /\ c.stage =
              FirstNonEmpty(<<c.flag, c.marker0, guessStage(username),
                              FirstNonEmpty(c.stdin0)>>)
         /\ c.flag # "" => c.prompts = 0 /\ c.reads = 0 /\ ~c.err
  /\ stageCalls # <<>> /\ ThisCall.flag # "" => stagePc \in {"env", "idle"}

\* the stage was entered at the prompt, after an empty line was refused
C16_Witness ==
  \E i \in DoneCalls :
    LET c == stageCalls[i] IN
      /\ c.flag = "" /\ c.marker0 = "" /\ guessStage(username) = ""
      /\ c.stdin0 = <<"", "bob">> /\ c.prompts = 2 /\ c.stage = "bob"

\* C17: getStage writes the marker if and only if neither the flag nor the
\* marker gave the stage (so the guess or the prompt did), then once and
\* with the value it resolved; otherwise the marker is left as it was.
C17_MarkerWrites ==
  stagePc = "idle" /\ stageCalls # <<>> =>
    LET c == ThisCall IN
      /\ Len(c.writes) = 1 <=> c.flag = "" /\ c.marker0 = ""
      /\ Len(c.writes) <= 1
      /\ c.writes # <<>> /\ ~c.err => c.writes = <<c.stage>> /\ marker = c.stage
      /\ c.writes = <<>> \/ c.err => marker = c.marker0

\* the guessed stage was written to the marker
C17_Witness ==
  /\ stagePc = "idle" /\ stageCalls # <<>>
  /\ username = "Alice"
  /\ ThisCall.done /\ ~ThisCall.err /\ ThisCall.marker0 = ""
  /\ ThisCall.writes = <<"alice">> /\ marker = "alice" /\ ThisCall.stage = "alice"

\* C18: when getStage is called twice in a row without the flag and the
\* first call returned a stage, the second call returns the same stage,
\* prints no prompt, reads no input and does not write the marker.
C18_Idempotent ==
  \A i \in 1..(Len(stageCalls) - 1) :
    LET first == stageCalls[i]
        second == stageCalls[i + 1]
    IN first.flag = "" /\ second.flag = "" /\ ~first.err =>
         /\ i + 1 = Len(stageCalls) => stagePc \in {"load", "env", "idle"}
         /\ second.prompts = 0 /\ second.reads = 0
         /\ second.writes = <<>>
         /\ second.done => ~second.err /\ second.stage = first.stage

\* the first call prompted, the second returned the same stage silently
C18_Witness ==
  /\ Len(stageCalls) = 2 /\ stageCalls[2].done
  /\ stageCalls[1].flag = "" /\ stageCalls[2].flag = ""
  /\ stageCalls[1].prompts > 0 /\ stageCalls[2].prompts = 0
  /\ stageCalls[1].stage = "bob" /\ stageCalls[2].stage = "bob"

\* guessStage has just returned into the local variable
Guessed == stagePc \in {"prompt", "persist"} /\ ThisCall.prompts = 0

\* C19 as stated: guessStage returns "" for each denylisted username and the
\* literal username, unchanged, for every other username.
C19_Original ==
  Guessed =>
    /\ username \in Denylist => stageName = ""
    /\ username \notin Denylist => stageName = username

\* C19 (amended): guessStage returns "" when the OS user is unknown or the
\* lower-cased username is denylisted (root, admin, prod, dev, production),
\* and the lower-cased username otherwise.
C19_GuessStage ==
  Guessed =>
    /\ username \in {"root", "admin", "prod", "dev", "production", "Root", NoUser}
         => stageName = ""
    /\ username \in {"alice", "Alice"} => stageName = "alice"
    /\ stageName = IF username = NoUser \/ ToLower(username) \in Denylist
                     THEN "" ELSE ToLower(username)

\* the username Alice was guessed as the stage alice
C19_Witness ==
  /\ username = "Alice"
  /\ stagePc = "persist" /\ ThisCall.prompts = 0
  /\ stageName = "alice"

\* the positions of state edit before its deferred Unlock()
StateEditPcs == {"edit_lock", "edit_pull", "edit_start", "edit_wait", "edit_push"}

\* state edit was turned away by Lock()
Rejected_StateEdit(p) == pc[p] = "returned" /\ result[p] = "Could not lock state"

\* C25: when Lock() fails in state edit the handler returns "Could not lock
\* state" at once; it calls neither Unlock() nor PullState() nor PushState():
\* the step, and everything the process does until it ends, leaves every
\* LockRecord and every StateBlob as they were, and the process has no local
\* copy of the state.
C25_RejectedTouchesNothing ==
  /\ [](\A p \in Procs : Rejected_StateEdit(p) =>
          /\ unlockCalls[p] = 0 /\ ~lockOk[p]
          /\ file[p] = EmptyFile /\ pulled[p] = EmptyFile /\ ~edited[p])
  /\ [][\A p \in Procs :
          /\ pc[p] = "edit_lock" /\ pc'[p] # "edit_lock" /\ ~CanAcquire(stage[p]) =>
               /\ Rejected_StateEdit(p)'
               /\ locks' = locks /\ blob' = blob
               /\ unlockCalls'[p] = 0 /\ file'[p] = EmptyFile
          /\ Rejected_StateEdit(p) /\ pc'[p] # pc[p] =>
               pc'[p] = "idle" /\ locks' = locks /\ blob' = blob]_vars

\* state edit was turned away while the holder's editor is open: it made no
\* Unlock() call, has no copy of the state, and the holder keeps its record
C25_Witness ==
  \E p, q \in Procs :
    /\ p # q /\ stage[p] = stage[q]
    /\ Rejected_StateEdit(p) /\ unlockCalls[p] = 0 /\ file[p] = EmptyFile
    /\ pc[q] = "edit_wait" /\ Holds(q) /\ file[q] = blob[stage[q]]

\* p makes an Unlock() call in this step
Unlocks(p) ==
  /\ pc[p] \in {"edit_defer", "unlocking", "imp_unlock"}
  /\ pc'[p] = "returned"

\* C26: an Unlock() removes at most the LockRecord of the process that calls
\* it: every LockRecord of another holder is still there afterwards, also
\* when the caller's own record was force-cleared by unlock and the lock was
\* re-acquired by another process in the meantime.
C26_UnlockOwnRecordOnly ==
  [][\A p \in Procs : Unlocks(p) =>
       /\ locks' = locks \ {LockRecord(stage[p], p)}
       /\ \A r \in locks : r.holderId # p => r \in locks'
       /\ unlockCalls'[p] = unlockCalls[p] + 1]_vars

\* state edit, force-cleared while its editor was open, is at its deferred
\* Unlock(); another process has re-acquired the lock, and the Unlock() step
\* can be taken and leaves that record in place
C26_Witness ==
  \E p, q \in Procs :
    /\ p # q /\ stage[p] = stage[q]
    /\ pc[p] = "edit_defer" /\ p \in forced /\ lockOk[p] /\ ~Holds(p)
    /\ Holds(q) /\ pc[q] \in EditPcs
    /\ ENABLED (StateEditDeferUnlock(p) /\ LockRecord(stage[q], q) \in locks')

\* the errors with which state edit returns before PushState
BeforePushErrors ==
  {"Could not pull state", "Could not start editor", "Editor exited with error"}

\* C27: state edit reaches PushState only from a successful cmd.Wait(), that
\* only from a successful cmd.Start(), and that only from a successful
\* PullState(); when PullState fails, the editor cannot start or the editor
\* exits with an error, the handler goes to its deferred Unlock() with that
\* error and the remote StateBlob is unchanged; no step of state edit other
\* than a successful PushState writes the blob.
C27_PushAfterEdit ==
  [][\A p \in Procs :
       /\ pc'[p] = "edit_push" /\ pc[p] # "edit_push" => pc[p] = "edit_wait" /\ result'[p] = ""
       /\ pc'[p] = "edit_wait" /\ pc[p] # "edit_wait" => pc[p] = "edit_start"
       /\ pc'[p] = "edit_start" /\ pc[p] # "edit_start" =>
            pc[p] = "edit_pull" /\ file'[p] = blob[stage[p]]
       /\ pc[p] \in StateEditPcs /\ result'[p] \in BeforePushErrors =>
            /\ pc[p] \in {"edit_pull", "edit_start", "edit_wait"}
            /\ pc'[p] = "edit_defer"
            /\ blob' = blob
       /\ pc[p] \in StateEditPcs /\ pc'[p] # pc[p] /\ blob' # blob =>
            pc[p] = "edit_push" /\ pc'[p] = "edit_defer" /\ result'[p] = ""
       /\ pc[p] = "edit_defer" /\ result[p] \in BeforePushErrors =>
            pc'[p] \in {"edit_defer", "returned", "crashed"}]_vars

\* the editor exited with an error: state edit is at its deferred Unlock()
\* with the blob as it was pulled, while another run did not touch it
C27_Witness ==
  \E p \in Procs :
    /\ pc[p] = "edit_defer" /\ result[p] = "Editor exited with error"
    /\ Holds(p) /\ unlockCalls[p] = 0
    /\ \A q \in Procs \ {p} : pc[q] = "idle"

\* the nodes of the command tree below a path, the node at the path included
RECURSIVE Subtree(_)
Subtree(path) ==
  {path} \cup UNION {Subtree(Append(path, Children(path)[i])) : i \in DOMAIN Children(path)}

\* every node of the tree of Root
Nodes == Subtree(RootPath)

\* the children of the node at path that carry the name
Named(path, name) == {i \in DOMAIN Children(path) : Children(path)[i] = name}

\* C23: every node of the command tree has either at least one child or a
\* Run handler and never both; the names of the children of a node are
\* pairwise distinct; so each word of the path that dispatch resolves names
\* exactly one child of the node before it, the resolved path is a node of
\* the tree, and a handler is only ever invoked on a node without children.
C23_TreeShape ==
  /\ \A n \in Nodes : (Children(n) # <<>>) # HasRun(n)
  /\ \A n \in Nodes : \A i, j \in DOMAIN Children(n) :
       Children(n)[i] = Children(n)[j] => i = j
  /\ Dispatched =>
       /\ cli.path \in Nodes
       /\ \A d \in 2..Len(cli.path) :
            Cardinality(Named(SubSeq(cli.path, 1, d - 1), cli.path[d])) = 1
  /\ \A h \in Range(handlerCalls) : h \in Nodes /\ Children(h) = <<>> /\ HasRun(h)

\* [secret, secret] resolved to the one node secret, which has children and
\* no handler: help was rendered for it
C23_Witness ==
  /\ runPc = "exited"
  /\ argv = <<"secret", "secret">>
  /\ cli.path = <<"sst", "secret">>
  /\ helpCalls = <<<<"sst", "secret">>>> /\ handlerCalls = <<>>

\* no line still waiting on standard input is a stage name
NoReadSucceeds == \A i \in DOMAIN stdin : stdin[i] = ""

\* C30: at the prompt step getStage is always able to prompt and read again;
\* it leaves the step only by a read that yields a non-empty stage, which
\* becomes the stage; a read error or an empty input leads to another prompt
\* and never to a returned error; and when no read can succeed any more
\* (the input is at its end or holds only empty lines) getStage stays at the
\* prompt for ever and never returns.
C30_PromptUntilRead ==
  /\ [](stagePc = "prompt" => ENABLED GetStagePrompt)
  /\ [][stagePc = "prompt" =>
          /\ stagePc' \in {"prompt", "persist"}
          /\ ~ThisCall'.done /\ ~ThisCall'.err
          /\ ScanlnFails => stagePc' = "prompt" /\ ThisCall'.prompts = CountUp(ThisCall.prompts)
          /\ stagePc' = "persist" =>
               ~ScanlnFails /\ stageName' = Head(stdin) /\ stageName' # ""]_allVars
  /\ [](stagePc = "prompt" /\ NoReadSucceeds => [](stagePc = "prompt" /\ ~ThisCall.done))

\* standard input held one empty line and then ended: getStage has prompted
\* MaxPrompts times and more and is still prompting
C30_Witness ==
  /\ stagePc = "prompt" /\ stdin = <<>>
  /\ ThisCall.stdin0 = <<"">> /\ ThisCall.prompts = MaxPrompts
  /\ ~ThisCall.done /\ stageName = ""

(* --------------------------- secret claims ----------------------------- *)
\* secret set of p has completed successfully
SetDone(p) ==
  pc[p] = "returned" /\ result[p] = "" /\ secretCall[p].cmd = "secret set"

\* C28 as stated: when two secret set invocations of concurrent processes on
\* distinct keys of the same (app, stage) have both completed successfully,
\* the stored map holds both keys with the values that were set, whatever
\* the interleaving of their GetSecrets and PutSecrets steps.
C28_Original ==
  \A p, q \in Procs :
    p # q /\ SetDone(p) /\ SetDone(q) /\ secretCall[p].key # secretCall[q].key =>
      /\ secrets[secretCall[p].key] = secretCall[p].value
      /\ secrets[secretCall[q].key] = secretCall[q].value

\* C29: secret remove of a name that is no key of the map it fetched returns
\* "Secret ... does not exist ..." without calling PutSecrets, and that step
\* leaves the stored map unchanged; a secret command whose GetSecrets failed
\* returns "Could not get secrets" and never calls PutSecrets; secret list
\* never calls PutSecrets, and no command calls it more than once.
C29_RemoveMissing ==
  /\ [](\A p \in Procs :
          LET c == secretCall[p] IN
            /\ pc[p] = "returned" /\ c.cmd = "secret remove" /\ c.got
                 /\ c.fetched[c.key] = Absent =>
                   result[p] = "Secret does not exist" /\ c.puts = <<>>
            /\ pc[p] = "returned" /\ result[p] = "Secret does not exist" =>
                 c.cmd = "secret remove" /\ c.fetched[c.key] = Absent /\ c.puts = <<>>
            /\ ~c.got => c.puts = <<>>
            /\ pc[p] = "returned" /\ result[p] = "Could not get secrets" =>
                 ~c.got /\ c.puts = <<>>
            /\ c.cmd = "secret list" => c.puts = <<>>
            /\ Len(c.puts) <= 1)
  /\ [][\A p \in Procs :
          /\ pc[p] = "sec_remove" /\ pc'[p] # pc[p]
               /\ secretCall[p].fetched[secretCall[p].key] = Absent =>
                 secrets' = secrets /\ secretCall'[p].puts = <<>>
          /\ pc[p] = "sec_get" /\ pc'[p] # pc[p] => secrets' = secrets
          /\ pc[p] = "sec_get" /\ pc'[p] = "returned" =>
               result'[p] = "Could not get secrets"]_allVars

\* secret remove A found no A in the stored map, made no PutSecrets call and
\* left the secret B in place
C29_Witness ==
  \E p \in Procs :
    /\ pc[p] = "returned" /\ result[p] = "Secret does not exist"
    /\ secretCall[p].cmd = "secret remove" /\ secretCall[p].key = "A"
    /\ secretCall[p].got /\ secretCall[p].fetched["A"] = Absent
    /\ secretCall[p].puts = <<>>
    /\ secrets = [EmptySecrets EXCEPT !["B"] = "y"]

(* ------------------------------ log claims ----------------------------- *)
\* the lines ui.Error printed
UiLines == SelectSeq(terminal, LAMBDA t : t.from = "ui")

\* the process has exited with an error that main() did not find to be a
\* ReadableError
ExitedUnexpected ==
  runPc = "exited" /\ runErr # "" /\ ~Readable(TransformError(runErr))

\* the record main() logs for the error
ErrorRecord == Record("exited with error", TransformError(runErr))

C24_Original ==
  [][\A i \in DOMAIN logs["sst.log"] :
       \E j \in DOMAIN logs'["sst.log"] : logs'["sst.log"][j] = logs["sst.log"][i]]_allVars

\* positions of the terminal events in the sequence handed to onEvent
Terminals == {i \in DOMAIN onEvent : onEvent[i] \in TerminalEvents}

\* Run was invoked in the current run of the state machine
RunStarted == lifecycle \in {"Running", "Cancelling", "Unlocking"}
                \/ (lifecycle = "Idle" /\ eventsAtUnlock # -1)

\* the run is over: its terminal event is due
RunOver == lifecycle = "Unlocking" \/ (lifecycle = "Idle" /\ eventsAtUnlock # -1)

====
